---- MODULE Spec2Model ----
(***************************************************************************)
(* RPi-photoframe: the cache synchronisation engine, the weather poller    *)
(* and the render loop of the slideshow variants                           *)
(*   slideshow.py   (Google Drive, API key, HEIC conversion) "ApiKeyHeic"  *)
(*   slideshow-3.py (Dropbox, access token)                  "TokenAuth"   *)
(*   slideshow-4.py (Google Drive, public page scrape)       "PublicScrape"*)
(*   slideshow-1.py (local folder only, no sync thread)      "LocalOnly"   *)
(***************************************************************************)
EXTENDS Integers, Sequences, FiniteSets, TLC

VARIABLES
    backend,       \* which variant of the program runs
    HEIC_SUPPORT,  \* slideshow.py: pillow-heif could be imported
    cache,         \* IMAGE_FOLDER on disk: file name -> "none" | "ok" | "bad" |
                   \* "partial" (created, its writer has not finished)
    spc,           \* position of the sync thread
    entries,       \* what the listing of the current cycle returned
    remote,        \* the listing the current cycle works on
    cur,           \* the entry whose file is being written or converted
    todo,          \* entries the download loop has not visited yet
    delTodo,       \* names of the os.listdir snapshot the removal loop has not visited
    synced_ok,     \* GDriveSyncThread.synced_ok / DropboxSyncThread.synced_ok
    listFailed,    \* history: a listing call of the current cycle failed
    dlFailed,      \* history: local names whose download or conversion failed this cycle
    didFetch,      \* history: the current cycle wrote a file
    didRemove,     \* history: the current cycle removed a file
    lastListing,   \* history: the listing of the previous cycle that had one
    converted,     \* history: the HEIC entries this cycle downloaded and converted
    convertedBefore, \* history: the same of the cycle before
    unconverted,   \* history: the listed HEIC entries whose latest conversion failed
    placed,        \* history: the files of the directory that the sync thread created
    folder,        \* environment: the entries the remote folder can hold
    IMAGE_ORDER,   \* "random" | "sequential"
    TRANSITION,    \* "crossfade" | "cut"
    CROSSFADE_STEPS,
    wpc,           \* position of the weather thread
    result,        \* WeatherThread.run: what fetch_weather returned
    data,          \* WeatherThread._data: 0 is None, k the dict of the k-th fetch
    lock,          \* WeatherThread._lock: "free" or its holder
    fetches,       \* number of fetch_weather calls that have returned
    lastGood,      \* history: the dict of the last fetch that succeeded, 0 if none
    rpc,           \* position of the render loop inside a tick
    running,
    image_list,
    index,
    current_surf,  \* the file the surface was loaded from, NoSurf for None
    age,           \* now - slide_start, capped at SLIDE_DURATION
    weather,       \* the snapshot the tick got from weather_thread.get()
    nev,           \* events of this tick's pygame.event.get() handled so far
    fresh_list,
    old_surf,
    new_surf,
    fade_i,        \* crossfade: frames presented so far
    frames,        \* history: the frames the latest crossfade presented
    obs,           \* history: the weather lines the overlay drew last in this tick
    issued,        \* history: the last command of the tick and how many it handled, the
                   \* cursor at the top of the tick, whether a slide was showing then,
                   \* whether the directory changed since
    changes        \* number of changes made to the cache directory

syncVars == <<spc, entries, remote, cur, todo, delTodo, synced_ok,
              listFailed, dlFailed, didFetch, didRemove, lastListing,
              converted, convertedBefore, unconverted, placed>>
confVars == <<backend, HEIC_SUPPORT, folder, IMAGE_ORDER, TRANSITION, CROSSFADE_STEPS>>
wxVars == <<wpc, result, data, lock, fetches, lastGood>>
listVars == <<image_list, index, current_surf, age>>
fadeVars == <<old_surf, new_surf, fade_i, frames>>
renderVars == <<rpc, running, nev, listVars, weather, fresh_list, fadeVars, obs, issued>>
vars == <<confVars, cache, changes, syncVars, wxVars, renderVars>>

----------------------------------------------------------------------------
(* File names.  A name is the pair os.path.splitext splits it into.        *)

N(stem, ext) == [stem |-> stem, ext |-> ext]

splitext(name) == <<name.stem, name.ext>>

\* str.lower() on the extensions that occur in the model
lower(ext) ==
    CASE ext = ".PNG"  -> ".png"
      [] ext = ".HEIC" -> ".heic"
      [] OTHER         -> ext

A_HEIC == N("a", ".heic")
A_JPG  == N("a", ".jpg")
B_PNG  == N("b", ".PNG")
C_WEBP == N("c", ".webp")
NOTES  == N("notes", ".txt")
PHOTO  == N("photo", "")

\* what a remote folder can hold: name, Dropbox ".tag", Drive "mimeType"
Entry(name, mt) == [name |-> name, tag |-> "file", mimeType |-> mt]

RemoteEntries ==
    { Entry(A_HEIC, "image/heic"), Entry(A_JPG, "image/jpeg"), Entry(B_PNG, "image/png"),
      Entry(NOTES, "text/plain"), Entry(PHOTO, "image/jpeg") }

\* the remote folders the model runs against: one with a HEIC photo beside a
\* JPG of the same stem, one with a text file and an image without extension
FolderChoices ==
    { { Entry(A_HEIC, "image/heic"), Entry(A_JPG, "image/jpeg"), Entry(B_PNG, "image/png") },
      { Entry(A_JPG, "image/jpeg"), Entry(B_PNG, "image/png"),
        Entry(NOTES, "text/plain"), Entry(PHOTO, "image/jpeg") } }

\* the names a file of the cache directory can have
LocalNames == {A_HEIC, A_JPG, B_PNG, C_WEBP, PHOTO}

\* sorted() order of the file names (ASCII)
NameOrder == <<A_HEIC, A_JPG, B_PNG, C_WEBP, PHOTO>>

Backends == {"ApiKeyHeic", "TokenAuth", "PublicScrape"}

SUPPORTED_MIMETYPES ==
    {"image/jpeg", "image/png", "image/gif", "image/webp", "image/heic", "image/heif"}

SUPPORTED_EXTS(b) ==
    IF b = "ApiKeyHeic" THEN {".jpg", ".jpeg", ".png", ".gif", ".webp"}
                        ELSE {".jpg", ".jpeg", ".png", ".gif"}

HEIC_EXTS == {".heic", ".heif"}

ALL_DOWNLOAD_EXTS == SUPPORTED_EXTS("ApiKeyHeic") \cup HEIC_EXTS

----------------------------------------------------------------------------
(* The sync engine                                                         *)

\* the filter each backend applies to the raw folder content
Listed(b, e) ==
    CASE b = "ApiKeyHeic" ->
            \/ e.mimeType \in SUPPORTED_MIMETYPES
            \/ lower(splitext(e.name)[2]) \in ALL_DOWNLOAD_EXTS
      [] b = "TokenAuth" ->
            /\ e.tag = "file"
            /\ lower(splitext(e.name)[2]) \in SUPPORTED_EXTS(b)
      [] OTHER ->
            lower(splitext(e.name)[2]) \in SUPPORTED_EXTS(b)

is_heic(b, name) == b = "ApiKeyHeic" /\ lower(splitext(name)[2]) \in HEIC_EXTS

\* the entry looked for under its remote name
local_name_raw(b, name) == name

\* local_name: a HEIC entry is looked for, and kept, under <stem>.jpg
local_name(b, name) ==
    IF is_heic(b, name) THEN N(splitext(name)[1], ".jpg") ELSE name

\* expected_local (slideshow.py); the keys of remote / remote_images elsewhere
expected_local(b, rem) == { local_name(b, e.name) : e \in rem }

\* os.path.exists
exists(c, name) == c[name] # "none"

\* the test inverted
needs_download_inverted(b, c, name) == exists(c, local_name(b, name))

\* every listed entry fetched in every cycle
needs_download_always(b, c, name) == TRUE

\* the download loop's test: fetch only what is not there yet
needs_download(b, c, name) == ~ exists(c, local_name(b, name))

\* the removal test against the remote names instead of expected_local
should_remove_by_remote_name(b, rem, fname) ==
    /\ lower(splitext(fname)[2]) \in SUPPORTED_EXTS(b)
    /\ fname \notin { e.name : e \in rem }

\* a removal loop that clears every supported-extension file
should_remove_all(b, rem, fname) == lower(splitext(fname)[2]) \in SUPPORTED_EXTS(b)

\* a removal loop without the extension test
should_remove_unexpected(b, rem, fname) == fname \notin expected_local(b, rem)

\* the removal loop's test
should_remove(b, rem, fname) ==
    /\ lower(splitext(fname)[2]) \in SUPPORTED_EXTS(b)
    /\ fname \notin expected_local(b, rem)

\* no entry
NoEntry == Entry(N("None", ""), "")

\* download_gdrive_file / dropbox_download: outcome d is
\*   "ok"     the bytes were fetched and written,
\*   "neterr" the request failed or (PublicScrape) both payloads were no image,
\*   "ioerr"  open() created the file and the write raised
DownloadOutcomes == {"ok", "neterr", "ioerr"}

\* what the request for a file returns: bytes that begin with one of the four
\* signatures download_gdrive_file of slideshow-4.py knows (JPEG with a JFIF
\* or an Exif header, PNG, GIF), other bytes (a JPEG that begins otherwise, an
\* HTML page), or an exception
Replies == {"signed", "plain", "error"}

\* the bytes are written: always in slideshow.py and slideshow-3.py, after the
\* "content[:4] in (...)" test in slideshow-4.py, whose second request returns
\* the same bytes
accepts(b, reply) ==
    \/ reply = "signed"
    \/ reply = "plain" /\ b # "PublicScrape"

\* open(local_path, "wb"): the file is there, its content is not
opened(c, path) == [c EXCEPT ![path] = "partial"]

\* f.write(content) and the end of the with block
download(c, path, d) ==
    CASE d = "ok"    -> [c EXCEPT ![path] = "ok"]
      [] d = "ioerr" -> [c EXCEPT ![path] = "bad"]
      [] OTHER       -> c

\* convert_heic_to_jpg: outcome cv is
\*   "ok"      img.save wrote the JPG and os.remove took the HEIC file away,
\*   "openerr" Image.open or convert raised, no JPG was created,
\*   "saveerr" img.save created the JPG and raised
ConvertOutcomes == {"ok", "openerr", "saveerr"}

jpg_path(heic_path) == N(splitext(heic_path)[1], ".jpg")

convert_heic_to_jpg(c, heic_path, support, cv) ==
    IF ~ support THEN c
    ELSE CASE cv = "ok"      -> [c EXCEPT ![jpg_path(heic_path)] = "ok", ![heic_path] = "none"]
           [] cv = "saveerr" -> [c EXCEPT ![jpg_path(heic_path)] = "bad"]
           [] OTHER          -> c

\* the download loop after a failed entry, had the failure ended the loop
remaining_abort(td, e, failed) == IF failed THEN {} ELSE td \ {e}

\* the download loop goes on with the next entry whatever happened to this one
remaining(td, e, failed) == td \ {e}

\* os.listdir
listdir(c) == { n \in LocalNames : exists(c, n) }

\* fetch_gdrive_file_list / the list_folder calls: R is the folder's content,
\* first tells whether the first request returned, got is what the pages that
\* were obtained hold (all of R, except when a Dropbox continuation failed),
\* shape is "missing_key" when the response parses but lacks a key the code
\* indexes (Dropbox: has_more without cursor, a file entry without path_lower;
\* Drive API: a file without id; Drive page: no entry the pattern matches)
ListShapes == {"ok", "missing_key"}

ListResults(b, fold) ==
    { [first |-> first, R |-> R, got |-> got, shape |-> shape] :
        first \in BOOLEAN, R \in SUBSET fold, got \in SUBSET fold, shape \in ListShapes }

ValidListResult(b, lr) ==
    /\ lr.got \subseteq lr.R
    /\ (b # "TokenAuth" => lr.got = lr.R)
    /\ (~ lr.first => lr.got = lr.R /\ lr.shape = "ok")
    /\ (lr.shape # "ok" => lr.got = lr.R)

\* what the listing code makes of a response:
\*   "none"    None is returned (the exception was caught),
\*   "raise"   the exception leaves sync_dropbox_folder (nothing catches the
\*             KeyError of data["cursor"] or e["path_lower"]), and run() with it,
\*   "entries" a list is returned
list_outcome(b, lr) ==
    IF ~ lr.first THEN "none"
    ELSE IF lr.shape = "ok" THEN "entries"
    ELSE CASE b = "TokenAuth"  -> "raise"
           [] b = "ApiKeyHeic" -> "none"
           [] OTHER            -> "entries"

listed_entries(b, lr) ==
    IF lr.shape = "ok" THEN { e \in lr.got : Listed(b, e) } ELSE {}

\* sync_gdrive_folder / sync_dropbox_folder up to the first download:
\* a failed or empty listing returns False before any file is touched
SyncList ==
    /\ spc = "start"
    /\ \E lr \in ListResults(backend, folder) :
         /\ ValidListResult(backend, lr)
         /\ LET ents == listed_entries(backend, lr)
                out == list_outcome(backend, lr)
            IN /\ listFailed' = (out # "entries" \/ lr.got # lr.R \/ lr.shape # "ok")
               /\ entries' = IF out = "entries" THEN ents ELSE {}
               /\ unconverted' = IF out = "entries" THEN unconverted \cap ents
                                 ELSE unconverted
               /\ IF out = "raise"
                  THEN /\ spc' = "dead"
                       /\ UNCHANGED <<remote, todo, lastListing, synced_ok>>
                  ELSE IF out = "none" \/ ents = {}
                  THEN /\ spc' = "sleep"
                       /\ synced_ok' = FALSE
                       /\ UNCHANGED <<remote, todo, lastListing>>
                  ELSE /\ spc' = "download"
                       /\ remote' = ents
                       /\ todo' = ents
                       /\ lastListing' = remote
                       /\ UNCHANGED synced_ok
    /\ dlFailed' = {}
    /\ didFetch' = FALSE
    /\ didRemove' = FALSE
    /\ UNCHANGED <<cache, cur, delTodo, confVars, changes, wxVars, renderVars>>
    /\ convertedBefore' = converted
    /\ converted' = {}
    /\ UNCHANGED placed

\* the "Download new files" loop, one entry per step: the existence test and the
\* request; when the bytes have arrived, open() creates the file
SyncDownload ==
    /\ spc = "download"
    /\ todo # {}
    /\ \E e \in todo, reply \in Replies :
         IF needs_download(backend, cache, e.name) /\ accepts(backend, reply)
         THEN /\ cache' = opened(cache, e.name)
              /\ placed' = placed \cup {e.name}
              /\ cur' = e
              /\ spc' = "write"
              /\ didFetch' = TRUE
              /\ UNCHANGED <<todo, dlFailed>>
         ELSE LET failed == needs_download(backend, cache, e.name)
              IN /\ todo' = remaining(todo, e, failed)
                 /\ dlFailed' = IF failed THEN dlFailed \cup {local_name(backend, e.name)}
                                ELSE dlFailed
                 /\ UNCHANGED <<cache, cur, spc, didFetch, placed>>
    /\ UNCHANGED <<entries, remote, delTodo, synced_ok, listFailed, didRemove,
                   lastListing, confVars, changes, wxVars, renderVars>>
    /\ UNCHANGED <<converted, convertedBefore>>
    /\ UNCHANGED unconverted

\* f.write(content) ends or raises; a HEIC file that was written is converted
SyncWrite ==
    /\ spc = "write"
    /\ \E d \in DownloadOutcomes \ {"neterr"} :
         /\ cache' = download(cache, cur.name, d)
         /\ unconverted' = IF d = "ok" /\ is_heic(backend, cur.name) /\ ~ HEIC_SUPPORT
                           THEN unconverted \cup {cur} ELSE unconverted
         /\ IF d = "ok" /\ is_heic(backend, cur.name) /\ HEIC_SUPPORT
            THEN /\ spc' = "convert"
                 /\ UNCHANGED <<cur, todo, dlFailed>>
            ELSE LET failed == d # "ok" \/ is_heic(backend, cur.name)
                 IN /\ spc' = "download"
                    /\ cur' = NoEntry
                    /\ todo' = remaining(todo, cur, failed)
                    /\ dlFailed' = IF failed
                                   THEN dlFailed \cup {local_name(backend, cur.name)}
                                   ELSE dlFailed
    /\ UNCHANGED <<entries, remote, delTodo, synced_ok, listFailed, didFetch, didRemove,
                   lastListing, confVars, changes, wxVars, renderVars>>
    /\ UNCHANGED <<converted, convertedBefore>>
    /\ UNCHANGED placed

\* convert_heic_to_jpg: Image.open and convert, then img.save creates the JPG
SyncConvert ==
    /\ spc = "convert"
    /\ \E opens \in BOOLEAN :
         IF opens
         THEN /\ cache' = opened(cache, jpg_path(cur.name))
              /\ placed' = placed \cup {jpg_path(cur.name)}
              /\ spc' = "save"
              /\ UNCHANGED <<cur, todo, dlFailed, unconverted>>
         ELSE /\ cache' = convert_heic_to_jpg(cache, cur.name, HEIC_SUPPORT, "openerr")
              /\ spc' = "download"
              /\ cur' = NoEntry
              /\ todo' = remaining(todo, cur, TRUE)
              /\ dlFailed' = dlFailed \cup {local_name(backend, cur.name)}
              /\ unconverted' = unconverted \cup {cur}
              /\ UNCHANGED placed
    /\ UNCHANGED <<entries, remote, delTodo, synced_ok, listFailed, didFetch, didRemove,
                   lastListing, confVars, changes, wxVars, renderVars>>
    /\ UNCHANGED <<converted, convertedBefore>>

\* img.save ends, and os.remove(heic_path), or it raises
SyncSave ==
    /\ spc = "save"
    /\ \E cv \in ConvertOutcomes \ {"openerr"} :
         /\ cache' = convert_heic_to_jpg(cache, cur.name, HEIC_SUPPORT, cv)
         /\ todo' = remaining(todo, cur, cv # "ok")
         /\ converted' = IF cv = "ok" THEN converted \cup {cur} ELSE converted
         /\ unconverted' = IF cv = "ok" THEN unconverted \ {cur} ELSE unconverted \cup {cur}
         /\ placed' = IF cv = "ok" THEN placed \ {cur.name} ELSE placed
         /\ dlFailed' = IF cv # "ok" THEN dlFailed \cup {local_name(backend, cur.name)}
                        ELSE dlFailed
    /\ spc' = "download"
    /\ cur' = NoEntry
    /\ UNCHANGED <<entries, remote, delTodo, synced_ok, listFailed, didFetch, didRemove,
                   lastListing, confVars, changes, wxVars, renderVars>>
    /\ UNCHANGED convertedBefore

\* a removal loop that does not wait for the download loop
downloads_skipped(td) == TRUE

\* the download loop has gone through remote.items()
downloads_done(td) == td = {}

\* for fname in os.listdir(local_folder): the snapshot the removal loop runs over
SyncListdir ==
    /\ spc = "download"
    /\ downloads_done(todo)
    /\ delTodo' = listdir(cache)
    /\ spc' = "delete"
    /\ UNCHANGED <<cache, entries, remote, cur, todo, synced_ok, listFailed, dlFailed,
                   didFetch, didRemove, lastListing, confVars, changes, wxVars, renderVars>>
    /\ UNCHANGED <<converted, convertedBefore>>
    /\ UNCHANGED unconverted
    /\ UNCHANGED placed

\* the removal loop, one listed name per step
SyncRemove ==
    /\ spc = "delete"
    /\ delTodo # {}
    /\ \E fname \in delTodo :
         /\ delTodo' = delTodo \ {fname}
         /\ IF should_remove(backend, remote, fname)
            THEN /\ cache' = [cache EXCEPT ![fname] = "none"]
                 /\ placed' = placed \ {fname}
                 /\ didRemove' = (didRemove \/ exists(cache, fname))
            ELSE UNCHANGED <<cache, didRemove, placed>>
    /\ UNCHANGED <<spc, entries, remote, cur, todo, synced_ok, listFailed, dlFailed,
                   didFetch, lastListing, confVars, changes, wxVars, renderVars>>
    /\ UNCHANGED <<converted, convertedBefore>>
    /\ UNCHANGED unconverted

\* return True, and run() stores it
SyncReturn ==
    /\ spc = "delete"
    /\ delTodo = {}
    /\ synced_ok' = TRUE
    /\ spc' = "sleep"
    /\ UNCHANGED <<cache, entries, remote, cur, todo, delTodo, listFailed, dlFailed,
                   didFetch, didRemove, lastListing, confVars, changes, wxVars, renderVars>>
    /\ UNCHANGED <<converted, convertedBefore>>
    /\ UNCHANGED unconverted
    /\ UNCHANGED placed

\* time.sleep(self.interval) returns and the loop starts the next cycle
SyncWake ==
    /\ spc = "sleep"
    /\ spc' = "start"
    /\ entries' = {}
    /\ listFailed' = FALSE
    /\ dlFailed' = {}
    /\ didFetch' = FALSE
    /\ didRemove' = FALSE
    /\ UNCHANGED <<cache, remote, cur, todo, delTodo, synced_ok, lastListing,
                   confVars, changes, wxVars, renderVars>>
    /\ UNCHANGED <<converted, convertedBefore>>
    /\ UNCHANGED unconverted
    /\ UNCHANGED placed

SyncNext ==
    \/ SyncList
    \/ SyncDownload
    \/ SyncWrite
    \/ SyncConvert
    \/ SyncSave
    \/ SyncListdir
    \/ SyncRemove
    \/ SyncReturn
    \/ SyncWake

\* the sync thread as main() starts it
SyncStart ==
    /\ spc = "start"
    /\ entries = {}
    /\ remote = {}
    /\ cur = NoEntry
    /\ todo = {}
    /\ delTodo = {}
    /\ synced_ok = FALSE
    /\ listFailed = FALSE
    /\ dlFailed = {}
    /\ didFetch = FALSE
    /\ didRemove = FALSE
    /\ lastListing = {}
    /\ converted = {}
    /\ convertedBefore = {}
    /\ unconverted = {}
    /\ placed = {}

----------------------------------------------------------------------------
(* The weather poller                                                      *)

\* upper bound on the number of fetch_weather calls of a run
MaxFetch == 2

\* fetch_weather: both lines of the dict are formatted from the same
\* current_weather object, here the one of the k-th response
line1(k) == <<"temperature", k>>
line2(k) == <<"windspeed", k>>

\* the fetch made inside the with block
WFetchCallLocked ==
    /\ wpc = "idle"
    /\ fetches < MaxFetch
    /\ lock = "free"
    /\ lock' = "weather"
    /\ wpc' = "fetching"
    /\ UNCHANGED <<result, data, fetches, lastGood>>
    /\ UNCHANGED <<confVars, cache, changes, syncVars, renderVars>>

\* run(): fetch_weather() is called, no lock held
WFetchCall ==
    /\ wpc = "idle"
    /\ fetches < MaxFetch
    /\ wpc' = "fetching"
    /\ UNCHANGED <<result, data, lock, fetches, lastGood>>
    /\ UNCHANGED <<confVars, cache, changes, syncVars, renderVars>>

\* fetch_weather returns a new dict, or None after any exception
WFetchReturn ==
    /\ wpc = "fetching"
    /\ \E ok \in BOOLEAN :
         /\ result' = IF ok THEN fetches + 1 ELSE 0
         /\ lastGood' = IF ok THEN fetches + 1 ELSE lastGood
    /\ fetches' = fetches + 1
    /\ wpc' = "acquire"
    /\ UNCHANGED <<data, lock>>
    /\ UNCHANGED <<confVars, cache, changes, syncVars, renderVars>>

\* with self._lock:
WAcquire ==
    /\ wpc = "acquire"
    /\ lock = "free"
    /\ lock' = "weather"
    /\ wpc' = "store"
    /\ UNCHANGED <<result, data, fetches, lastGood>>
    /\ UNCHANGED <<confVars, cache, changes, syncVars, renderVars>>

\* the assignment without the end of the with block
WStoreHolding ==
    /\ wpc = "store"
    /\ data' = result
    /\ wpc' = "sleep"
    /\ UNCHANGED <<result, lock, fetches, lastGood>>
    /\ UNCHANGED <<confVars, cache, changes, syncVars, renderVars>>

\* self._data = result, and the with block releases the lock
WStore ==
    /\ wpc = "store"
    /\ data' = result
    /\ lock' = "free"
    /\ wpc' = "sleep"
    /\ UNCHANGED <<result, fetches, lastGood>>
    /\ UNCHANGED <<confVars, cache, changes, syncVars, renderVars>>

\* time.sleep(WEATHER_REFRESH) returns
WWake ==
    /\ wpc = "sleep"
    /\ wpc' = "idle"
    /\ UNCHANGED <<result, data, lock, fetches, lastGood>>
    /\ UNCHANGED <<confVars, cache, changes, syncVars, renderVars>>

WeatherNext ==
    \/ WFetchCall
    \/ WFetchReturn
    \/ WAcquire
    \/ WStore
    \/ WWake

\* WeatherThread.__init__ and start()
WeatherStart ==
    /\ wpc = "idle"
    /\ result = 0
    /\ data = 0
    /\ lock = "free"
    /\ fetches = 0
    /\ lastGood = 0

----------------------------------------------------------------------------
(* The render loop                                                         *)

\* seconds a slide stays (slideshow.py; 30 in the other variants)
SLIDE_DURATION == 3

\* info.current_w, the width of the screen in pixels
SW == 6

\* upper bound on the events one tick handles
MaxEvents == 1

\* upper bound on the changes made to the cache directory while the render
\* loop is observed on its own
MaxChanges == 2

\* upper bound on the CROSSFADE_STEPS the crossfade is run for
MaxSteps == 12

\* None where a surface is expected
NoSurf == N("None", "")

max(a, b) == IF a >= b THEN a ELSE b
min(a, b) == IF a <= b THEN a ELSE b

\* the image files the render loop can meet in the cache directory
Pictures == {A_JPG, B_PNG}

\* the names in an order os.listdir can return them in, sorted() left out
load_image_list_unsorted(b, c) ==
    SelectSeq([i \in 1..Len(NameOrder) |-> NameOrder[Len(NameOrder) + 1 - i]],
              LAMBDA n : exists(c, n) /\ lower(splitext(n)[2]) \in SUPPORTED_EXTS(b))

\* load_image_list: the supported-extension names of the directory, sorted
load_image_list(b, c) ==
    SelectSeq(NameOrder, LAMBDA n : exists(c, n) /\ lower(splitext(n)[2]) \in SUPPORTED_EXTS(b))

\* random.shuffle: every arrangement of the list
shuffle(l) ==
    { p \in [1..Len(l) -> {l[i] : i \in 1..Len(l)}] :
        \A i, j \in 1..Len(l) : i # j => p[i] # p[j] }

\* the list as IMAGE_ORDER leaves it
ordered(mode, l) == IF mode = "random" THEN shuffle(l) ELSE {l}

\* load_and_scale: None when the file is gone or cannot be decoded
load_and_scale(c, path) == IF c[path] = "ok" THEN path ELSE NoSurf

\* a pygame event: key for KEYDOWN, x for MOUSEBUTTONUP (pos[0], pixels) and
\* FINGERUP (event.x, in units of 1/SW of the width)
Ev(type, key, x) == [type |-> type, key |-> key, x |-> x]

Events ==
    {Ev("QUIT", "", 0)}
    \cup {Ev("KEYDOWN", k, 0) : k \in {"K_ESCAPE", "K_RIGHT", "K_LEFT", "K_SPACE"}}
    \cup {Ev("MOUSEBUTTONUP", "", x) : x \in 0..(SW - 1)}
    \cup {Ev("FINGERUP", "", x) : x \in 0..SW}

\* the finger position taken as if it were in pixels
tx_raw(ev) == IF ev.type = "FINGERUP" THEN ev.x \div SW ELSE ev.x

\* tx = (event.x * SW) if FINGERUP else event.pos[0]
tx(ev) == IF ev.type = "FINGERUP" THEN (ev.x * SW) \div SW ELSE ev.x

\* "previous" as a step back of one
previous_index_floor(i) == i - 1

\* index = max(0, index - 2)
previous_index(i) == max(0, i - 2)

\* K_LEFT or a tap in the left third: the cursor moves and
\* slide_start = now - SLIDE_DURATION

on_previous(st) ==
    [st EXCEPT !.index = previous_index(st.index), !.age = SLIDE_DURATION,
               !.cmd = "prev", !.n = @ + 1]

\* "next" that leaves the slide timer alone
on_next_no_force(st) == [st EXCEPT !.cmd = "next", !.n = @ + 1]

\* slide_start = now - SLIDE_DURATION
on_next(st) == [st EXCEPT !.age = SLIDE_DURATION, !.cmd = "next", !.n = @ + 1]

\* the body of the event loop
on_event(st, ev) ==
    CASE ev.type = "QUIT" -> [st EXCEPT !.running = FALSE]
      [] ev.type = "KEYDOWN" ->
            CASE ev.key = "K_ESCAPE" -> [st EXCEPT !.running = FALSE]
              [] ev.key = "K_RIGHT"  -> on_next(st)
              [] ev.key = "K_LEFT"   -> on_previous(st)
              [] OTHER               -> st
      [] ev.type \in {"MOUSEBUTTONUP", "FINGERUP"} ->
            IF 3 * tx(ev) < SW THEN on_previous(st)
            ELSE IF 3 * tx(ev) > 2 * SW THEN on_next(st)
            ELSE st
      [] OTHER -> st

SyncVariant == backend # "LocalOnly"

\* an advance test that waits for more than the slide duration
due_after(a) == a > SLIDE_DURATION

\* the advance test of the tick: now - slide_start >= SLIDE_DURATION
due(a) == a >= SLIDE_DURATION

\* top of the loop: now = time.time(), weather = weather_thread.get() and
\* pygame.event.get().  dt is the time that passed since the clock was last read.
RBegin ==
    /\ rpc = "top"
    /\ running
    /\ lock = "free"
    /\ weather' = data
    /\ \E dt \in {0, 1} : age' = min(age + dt, SLIDE_DURATION)
    /\ issued' = [cmd |-> "none", n |-> 0, by |-> "none", idx |-> index,
                  showing |-> current_surf # NoSurf, steady |-> TRUE]
    /\ nev' = 0
    /\ obs' = << <<>>, <<>> >>
    /\ rpc' = "events"
    /\ UNCHANGED <<running, image_list, index, current_surf, fresh_list, fadeVars>>
    /\ UNCHANGED <<confVars, cache, changes, syncVars, wxVars>>

\* one iteration of "for event in pygame.event.get()"
REvent ==
    /\ rpc = "events"
    /\ nev < MaxEvents
    /\ \E ev \in Events :
         LET st == on_event([index |-> index, age |-> age, running |-> running,
                             cmd |-> issued.cmd, n |-> issued.n], ev)
         IN /\ index' = st.index
            /\ age' = st.age
            /\ running' = st.running
            /\ issued' = [issued EXCEPT !.cmd = st.cmd, !.n = st.n,
                                        !.by = IF st.n = issued.n THEN @
                                               ELSE IF ev.type = "KEYDOWN" THEN "key"
                                               ELSE "tap"]
    /\ nev' = nev + 1
    /\ UNCHANGED <<rpc, image_list, current_surf, weather, fresh_list, fadeVars, obs>>
    /\ UNCHANGED <<confVars, cache, changes, syncVars, wxVars>>

\* the event loop is over; slideshow-1.py lists the directory only when the
\* advance is due
REventsDone ==
    /\ rpc = "events"
    /\ rpc' = IF SyncVariant \/ due(age) THEN "list" ELSE "draw"
    /\ nev' = 0
    /\ UNCHANGED <<running, listVars, weather, fresh_list, fadeVars, obs, issued>>
    /\ UNCHANGED <<confVars, cache, changes, syncVars, wxVars>>

\* load_image_list(IMAGE_FOLDER)
RList ==
    /\ rpc = "list"
    /\ fresh_list' = load_image_list(backend, cache)
    /\ rpc' = "load"
    /\ UNCHANGED <<running, nev, listVars, weather, fadeVars, obs, issued>>
    /\ UNCHANGED <<confVars, cache, changes, syncVars, wxVars>>

\* the new surface replaces the shown one whether it was loaded or not
shown_after_replace(new, old, keep) == new

\* current_surf = new_surf or old_surf; slideshow-1.py: current_surf = new_surf
shown_after(new, old, keep) == IF new # NoSurf \/ ~ keep THEN new ELSE old

\* a crossfade whatever TRANSITION is
crossfade_always(new, old, transition) == new # NoSurf /\ old # NoSurf

\* if new_surf and old_surf and TRANSITION == "crossfade": crossfade(...)
crossfade_called(new, old, transition) ==
    new # NoSurf /\ old # NoSurf /\ transition = "crossfade"

\* the new slide is taken over: a crossfade starts, or the surface is swapped
Advance(il, i, new, keep) ==
    /\ image_list' = il
    /\ index' = i
    /\ fresh_list' = <<>>
    /\ IF crossfade_called(new, current_surf, TRANSITION)
       THEN /\ rpc' = "fade"
            /\ old_surf' = current_surf
            /\ new_surf' = new
            /\ fade_i' = 0
            /\ frames' = <<>>
            /\ UNCHANGED <<current_surf, age>>
       ELSE /\ rpc' = "draw"
            /\ current_surf' = shown_after(new, current_surf, keep)
            /\ age' = 0
            /\ UNCHANGED fadeVars

\* an advance over an empty listing that clears the screen
shown_when_empty_none(surf) == NoSurf

\* "if image_list:" is false: the block that loads and assigns is skipped and
\* current_surf is what it was
shown_when_empty(surf) == surf

\* "First load after sync completes" and "Advance slide" of the variants that
\* run a sync thread
LoadSynced ==
    IF current_surf = NoSurf /\ fresh_list # <<>>
    THEN \E il \in ordered(IMAGE_ORDER, fresh_list) :
            /\ image_list' = il
            /\ current_surf' = load_and_scale(cache, il[1])
            /\ index' = 0
            /\ age' = 0
            /\ fresh_list' = <<>>
            /\ rpc' = "draw"
            /\ UNCHANGED fadeVars
    ELSE IF due(age) /\ current_surf # NoSurf
    THEN \E il \in ordered(IMAGE_ORDER, fresh_list) :
            IF il # <<>>
            THEN LET i == (index + 1) % Len(il)
                 IN Advance(il, i, load_and_scale(cache, il[i + 1]), TRUE)
            ELSE /\ image_list' = il
                 /\ age' = 0
                 /\ fresh_list' = <<>>
                 /\ rpc' = "draw"
                 /\ current_surf' = shown_when_empty(current_surf)
                 /\ UNCHANGED <<index, fadeVars>>
    ELSE /\ rpc' = "draw"
         /\ fresh_list' = <<>>
         /\ UNCHANGED <<listVars, fadeVars>>

\* "Slide advance" of slideshow-1.py
LoadLocal ==
    \E il \in ordered(IMAGE_ORDER, fresh_list) :
        LET i == (index + 1) % max(Len(il), 1)
            new == IF il # <<>> THEN load_and_scale(cache, il[(i % Len(il)) + 1]) ELSE NoSurf
        IN Advance(il, i, new, FALSE)

RLoad ==
    /\ rpc = "load"
    /\ IF SyncVariant THEN LoadSynced ELSE LoadLocal
    /\ UNCHANGED <<running, nev, weather, obs, issued>>
    /\ UNCHANGED <<confVars, cache, changes, syncVars, wxVars>>

\* the overlay reading the shared cell instead of the dict the tick fetched
overlay_source_cell(captured, cell) == cell

\* draw_overlays: the weather box shows the two lines of the dict it is given
overlay_source(captured, cell) == captured

\* main() always passes overlay_fn (weather_fn in slideshow-1.py), so the
\* "if overlay_fn:" of crossfade draws the overlays on every frame
overlay_fn_given == TRUE

\* the alpha of a loop that counts from 0
alpha_zero_based(i, steps) == (255 * (i - 1)) \div steps

\* int(255 * i / CROSSFADE_STEPS)
alpha(i, steps) == (255 * i) \div steps

\* range(1, CROSSFADE_STEPS + 1)
last_frame(steps) == steps

\* one iteration of the crossfade loop: both surfaces are blitted, the overlays
\* are drawn and the frame is presented
RFadeFrame ==
    /\ rpc = "fade"
    /\ LET i == fade_i + 1
           w == overlay_source(weather, data)
       IN /\ fade_i' = i
          /\ frames' = Append(frames, [alpha |-> alpha(i, CROSSFADE_STEPS),
                                     overlays |-> overlay_fn_given])
          /\ obs' = IF w = 0 THEN obs ELSE <<line1(w), line2(w)>>
          /\ IF i >= last_frame(CROSSFADE_STEPS)
             THEN /\ current_surf' = new_surf
                  /\ age' = 0
                  /\ rpc' = "draw"
                  /\ old_surf' = NoSurf
                  /\ new_surf' = NoSurf
             ELSE UNCHANGED <<current_surf, age, rpc, old_surf, new_surf>>
    /\ UNCHANGED <<running, nev, image_list, index, weather, fresh_list, issued>>
    /\ UNCHANGED <<confVars, cache, changes, syncVars, wxVars>>

\* a loop that goes back to its top whatever running is
after_tick_again(r) == "top"

\* "while running:" is tested when the tick is over; pygame.quit() and
\* sys.exit(0) follow the loop
after_tick(r) == IF r THEN "top" ELSE "exit"

\* "Draw": the slide or the status screen, then draw_overlays, which reads
\* line1 and then line2 of the weather dict, then flip() and clock.tick(30)
RDraw ==
    /\ rpc \in {"draw", "line2"}
    /\ LET w == overlay_source(weather, data)
       IN IF rpc = "draw" /\ w # 0
          THEN /\ obs' = <<line1(w), <<>> >>
               /\ rpc' = "line2"
               /\ UNCHANGED <<weather, fade_i, frames>>
          ELSE /\ obs' = IF rpc = "line2" /\ w # 0 THEN <<obs[1], line2(w)>> ELSE obs
               /\ rpc' = after_tick(running)
               /\ weather' = 0
               /\ fade_i' = 0
               /\ frames' = IF running THEN <<>> ELSE frames
    /\ UNCHANGED <<running, nev, listVars, fresh_list, old_surf, new_surf, issued>>
    /\ UNCHANGED <<confVars, cache, changes, syncVars, wxVars>>

RenderNext ==
    \/ RBegin
    \/ REvent
    \/ REventsDone
    \/ RList
    \/ RLoad
    \/ RFadeFrame
    \/ RDraw

\* a file of the cache directory appears, is completed or vanishes while the
\* render loop runs: what download_gdrive_file / dropbox_download and the
\* removal loop of the sync thread do to the directory (in slideshow-1.py,
\* what whoever fills IMAGE_FOLDER does)
CacheChange ==
    /\ changes < MaxChanges
    /\ \E n \in Pictures, st \in {"none", "ok", "bad"} :
         /\ cache[n] # st
         /\ cache' = [cache EXCEPT ![n] = st]
    /\ changes' = changes + 1
    /\ issued' = [issued EXCEPT !.steady = FALSE]
    /\ UNCHANGED <<rpc, running, nev, listVars, weather, fresh_list, fadeVars, obs>>
    /\ UNCHANGED <<confVars, syncVars, wxVars>>

\* main() down to "running = True"
RenderStart ==
    /\ rpc = "top"
    /\ running = TRUE
    /\ index = 0
    /\ age = 0
    /\ weather = 0
    /\ fresh_list = <<>>
    /\ old_surf = NoSurf
    /\ new_surf = NoSurf
    /\ fade_i = 0
    /\ frames = <<>>
    /\ obs = << <<>>, <<>> >>
    /\ nev = 0
    /\ issued = [cmd |-> "init", n |-> 0, by |-> "none", idx |-> 0,
                 showing |-> FALSE, steady |-> TRUE]
    /\ changes = 0
    /\ IF SyncVariant
       THEN /\ image_list = <<>>
            /\ current_surf = NoSurf
       ELSE /\ image_list \in ordered(IMAGE_ORDER, load_image_list(backend, cache))
            /\ current_surf = IF image_list # <<>>
                              THEN load_and_scale(cache, image_list[1]) ELSE NoSurf

----------------------------------------------------------------------------
(* Specifications                                                          *)

\* the sync engine of the three backends on its own
InitSync ==
    /\ backend \in Backends
    /\ HEIC_SUPPORT \in BOOLEAN
    /\ (backend # "ApiKeyHeic" => HEIC_SUPPORT = FALSE)
    /\ folder \in FolderChoices
    /\ cache \in [LocalNames -> {"none", "ok"}]
    /\ \A n \in LocalNames : exists(cache, n) => \E e \in folder : e.name = n
    /\ IMAGE_ORDER = "sequential"
    /\ TRANSITION = "cut"
    /\ CROSSFADE_STEPS = 1
    /\ SyncStart
    /\ WeatherStart
    /\ RenderStart

SpecSync == InitSync /\ [][SyncNext]_vars

\* one call of the sync function as a whole, for a folder without HEIC entries
\* whose names differ: the listing has succeeded, every missing entry is
\* requested with reply[name] and written with outcome wr[name], then the
\* removal loop runs.  An empty listing returns False before both loops.
sync_folder(b, c, fold, reply, wr) ==
    LET ents == { e \in fold : Listed(b, e) }
        got(n) == \E e \in ents : /\ e.name = n
                                  /\ needs_download(b, c, n)
                                  /\ accepts(b, reply[n])
        c1 == [n \in LocalNames |->
                 IF got(n) THEN download(opened(c, n), n, wr[n])[n] ELSE c[n]]
        c2 == [n \in LocalNames |->
                 IF exists(c1, n) /\ should_remove(b, ents, n) THEN "none" ELSE c1[n]]
    IN IF ents = {} THEN [cache |-> c, remote |-> {}, ok |-> FALSE]
                    ELSE [cache |-> c2, remote |-> ents, ok |-> TRUE]

\* the inputs of the entries of a cycle
ReplyChoices == [Pictures -> Replies]
WriteChoices == [Pictures -> DownloadOutcomes \ {"neterr"}]

\* a whole cycle in one step
SyncCycle ==
    /\ spc = "start"
    /\ \E reply \in ReplyChoices, wr \in WriteChoices :
         LET r == sync_folder(backend, cache, folder, reply, wr)
         IN /\ cache' = r.cache
            /\ synced_ok' = r.ok
            /\ remote' = r.remote
            /\ entries' = r.remote
    /\ spc' = "sleep"
    /\ UNCHANGED <<cur, todo, delTodo, listFailed, dlFailed, didFetch, didRemove,
                   lastListing, converted, convertedBefore, unconverted, placed>>
    /\ UNCHANGED <<confVars, changes, wxVars, renderVars>>

\* one cycle of each backend over a folder of .jpg/.png entries and a cache
\* directory holding any files, such as the three variants leave in
\* ~/slideshow_cache/
InitEquiv ==
    /\ backend \in Backends
    /\ HEIC_SUPPORT = FALSE
    /\ folder \in SUBSET {Entry(A_JPG, "image/jpeg"), Entry(B_PNG, "image/png")}
    /\ cache \in [LocalNames -> {"none", "ok"}]
    /\ IMAGE_ORDER = "sequential"
    /\ TRANSITION = "cut"
    /\ CROSSFADE_STEPS = 1
    /\ SyncStart
    /\ WeatherStart
    /\ RenderStart

SpecEquiv == InitEquiv /\ [][SyncCycle]_vars

\* the render loop of both kinds of variant over a changing cache directory
InitPlay ==
    /\ backend \in {"TokenAuth", "LocalOnly"}
    /\ HEIC_SUPPORT = FALSE
    /\ folder = {}
    /\ cache \in [LocalNames -> {"none", "ok"}]
    /\ \A n \in LocalNames : exists(cache, n) => n \in Pictures
    /\ IMAGE_ORDER \in {"random", "sequential"}
    /\ TRANSITION \in {"crossfade", "cut"}
    /\ CROSSFADE_STEPS = 2
    /\ SyncStart
    /\ WeatherStart
    /\ RenderStart

PlayNext == RenderNext \/ CacheChange

SpecPlay == InitPlay /\ [][PlayNext]_vars

\* the step count the source ships with
DEFAULT_CROSSFADE_STEPS == 30

\* the smallest step count whose first alpha, 255 \div S, is 0
ManySteps == 255 + 1

StepCounts == (1..MaxSteps) \cup {DEFAULT_CROSSFADE_STEPS, ManySteps}

\* the crossfade for every step count of StepCounts, over two cached pictures
InitFade ==
    /\ backend \in {"TokenAuth", "LocalOnly"}
    /\ HEIC_SUPPORT = FALSE
    /\ folder = {}
    /\ cache = [n \in LocalNames |-> IF n \in Pictures THEN "ok" ELSE "none"]
    /\ IMAGE_ORDER = "sequential"
    /\ TRANSITION = "crossfade"
    /\ CROSSFADE_STEPS \in StepCounts
    /\ SyncStart
    /\ WeatherStart
    /\ RenderStart

SpecFade == InitFade /\ [][RenderNext]_vars

\* the weather thread beside the render loop
InitWx ==
    /\ backend \in {"TokenAuth", "LocalOnly"}
    /\ HEIC_SUPPORT = FALSE
    /\ folder = {}
    /\ cache = [n \in LocalNames |-> IF n \in Pictures THEN "ok" ELSE "none"]
    /\ IMAGE_ORDER = "sequential"
    /\ TRANSITION = "crossfade"
    /\ CROSSFADE_STEPS = 1
    /\ SyncStart
    /\ WeatherStart
    /\ RenderStart

WxNext == WeatherNext \/ RenderNext

SpecWx == InitWx /\ [][WxNext]_vars

\* the three threads of a variant with a sync thread, against a remote folder
\* of one picture
Init ==
    /\ backend = "PublicScrape"
    /\ HEIC_SUPPORT = FALSE
    /\ folder = { Entry(A_JPG, "image/jpeg") }
    /\ cache = [n \in LocalNames |-> "none"]
    /\ IMAGE_ORDER = "sequential"
    /\ TRANSITION = "cut"
    /\ CROSSFADE_STEPS = 1
    /\ SyncStart
    /\ WeatherStart
    /\ RenderStart

\* slideshow-4.py converts nothing: its sync thread has no conversion steps
SyncNextPlain ==
    \/ SyncList
    \/ SyncDownload
    \/ SyncWrite
    \/ SyncListdir
    \/ SyncRemove
    \/ SyncReturn
    \/ SyncWake

\* weather polls that return while the three threads are observed together
MaxPolls == 1

WeatherPolls == WeatherNext /\ fetches' <= MaxPolls

Next ==
    SyncNextPlain \/ WeatherPolls \/ RBegin \/ REvent \/ REventsDone \/ RList \/ RLoad \/ RDraw

Spec == Init /\ [][Next]_vars

\* the render loop with a crossfade at every advance, beside the weather
\* thread, on a cache directory in any state the sync thread can have left it
\* in; the main thread is scheduled again and again, the daemon threads may
\* stop anywhere
InitLive ==
    /\ backend = "TokenAuth"
    /\ HEIC_SUPPORT = FALSE
    /\ folder = {}
    /\ cache \in { c \in [LocalNames -> {"none", "ok", "bad"}] :
                      \A n \in LocalNames \ Pictures : c[n] = "none" }
    /\ IMAGE_ORDER = "sequential"
    /\ TRANSITION = "crossfade"
    /\ CROSSFADE_STEPS = 2
    /\ SyncStart
    /\ WeatherStart
    /\ RenderStart

LiveNext == WeatherPolls \/ RenderNext

\* the interpreter switches between runnable threads: the main thread takes
\* its steps, and the weather thread, once inside its with block, leaves it
SpecLive == InitLive /\ [][LiveNext]_vars /\ WF_vars(RenderNext) /\ WF_vars(WStore)

\* the render loop on its own over a cache directory that nothing changes and
\* whose pictures (up to three in slideshow.py, which also shows .webp) all
\* decode
InitSeq ==
    /\ backend \in {"ApiKeyHeic", "LocalOnly"}
    /\ HEIC_SUPPORT = FALSE
    /\ folder = {}
    /\ cache \in { c \in [LocalNames -> {"none", "ok"}] :
                      c[A_HEIC] = "none" /\ c[PHOTO] = "none" }
    /\ IMAGE_ORDER = "sequential"
    /\ TRANSITION \in {"crossfade", "cut"}
    /\ CROSSFADE_STEPS = 1
    /\ SyncStart
    /\ WeatherStart
    /\ RenderStart

SpecSeq == InitSeq /\ [][RenderNext]_vars

\* the sync thread of slideshow.py and the render loop on one cache directory:
\* a folder of one picture, HEIC or PNG; the directory is empty or holds a.jpg
\* from an earlier run
InitCache ==
    /\ backend = "ApiKeyHeic"
    /\ HEIC_SUPPORT = TRUE
    /\ folder \in { { Entry(A_HEIC, "image/heic") }, { Entry(B_PNG, "image/png") } }
    /\ cache \in { [n \in LocalNames |-> "none"],
                   [n \in LocalNames |-> IF n = A_JPG THEN "ok" ELSE "none"] }
    /\ IMAGE_ORDER = "sequential"
    /\ TRANSITION = "cut"
    /\ CROSSFADE_STEPS = 1
    /\ SyncStart
    /\ WeatherStart
    /\ RenderStart

CacheNext == SyncNext \/ RBegin \/ REvent \/ REventsDone \/ RList \/ RLoad \/ RDraw

SpecCache == InitCache /\ [][CacheNext]_vars

----------------------------------------------------------------------------
(* Properties of the sync engine                                           *)

supported(b, name) == lower(splitext(name)[2]) \in SUPPORTED_EXTS(b)

\* the supported-extension file names of LocalCache
CachedSupported == { n \in LocalNames : exists(cache, n) /\ supported(backend, n) }

\* the cycle has returned True and the thread sleeps
CycleSucceeded == spc = "sleep" /\ synced_ok

\* C1: no step of a cycle in which a listing call failed creates, overwrites
\* or deletes a file of LocalCache
C1_ListFailureLeavesCache == [][listFailed' => cache' = cache]_vars

C4_SnapshotRetained ==
    (wpc = "sleep" /\ lastGood # 0) => data = lastGood

\* C5 as stated: sequential order, cache unchanged and decodable, n >= 1 files:
\* the tick that handles 'previous' while index i is showing ends showing index
\* (i - 1) mod n
C5_PreviousShowsPredecessor ==
    LET n == Len(image_list)
    IN  ( /\ rpc = "top"
          /\ issued.cmd = "prev"
          /\ issued.n = 1
          /\ issued.showing
          /\ IMAGE_ORDER = "sequential"
          /\ changes = 0
          /\ n >= 1 )
        => /\ index = (issued.idx + n - 1) % n
           /\ current_surf = image_list[index + 1]

\* C6 as stated: in every state of the render loop the cursor is a valid index
\* into the playlist sequence, or the sequence is empty and the placeholder is
\* what playback shows
C6_CursorValidOrEmpty ==
    \/ (0 <= index /\ index < Len(image_list))
    \/ (image_list = <<>> /\ current_surf = NoSurf)

\* C7 as stated: a tick that starts with nothing showing and with a non-empty,
\* decodable cache that stays as it is during the tick ends showing the image at
\* index 0 of the freshly listed sequence, whatever the slide timer says
C7_EmptyToFirstImmediately ==
    ( /\ rpc = "top"
      /\ issued.cmd # "init"
      /\ ~ issued.showing
      /\ issued.steady
      /\ load_image_list(backend, cache) # <<>>
      /\ \A n \in Pictures : cache[n] \in {"none", "ok"} )
    => /\ current_surf # NoSurf
       /\ index = 0
       /\ image_list # <<>>
       /\ current_surf = image_list[1]

\* C8: a crossfade of S = CROSSFADE_STEPS steps never presents more than S
\* frames and has presented exactly S when it ends; frame i has alpha
\* floor(255 * i / S), so the alphas never decrease, start at floor(255 / S) and
\* end at 255; the overlays are drawn on every frame
C8_CrossfadeFrames ==
    LET S == CROSSFADE_STEPS
        F == Len(frames)
    IN  /\ F <= S
        /\ \A i \in 1..F :
              /\ frames[i].alpha = (255 * i) \div S
              /\ frames[i].overlays
        /\ \A i, j \in 1..F : i < j => frames[i].alpha <= frames[j].alpha
        /\ F >= 1 => frames[1].alpha = 255 \div S
        /\ (rpc \in {"draw", "line2"} /\ F >= 1) => (F = S /\ frames[F].alpha = 255)
        /\ rpc = "fade" => F < S

C8_Witness ==
    /\ rpc = "draw"
    /\ Len(frames) = CROSSFADE_STEPS
    /\ CROSSFADE_STEPS = ManySteps
    /\ frames[1].alpha = 0
    /\ current_surf = B_PNG

\* C9: whatever the weather thread does between the two reads, the two weather
\* lines a reader has drawn come from the same fetch
C9_NoTornSnapshot ==
    (obs[1] # <<>> /\ obs[2] # <<>>) => obs[1][2] = obs[2][2]

C9_Witness ==
    /\ rpc = "line2"
    /\ obs[1] # <<>>
    /\ data # weather
    /\ data # 0
    /\ weather # 0

being_written(c, n) == c[n] = "partial"

\* C11: every file the render loop obtains from a listing of the cache
\* directory is completely written; a file the sync thread has created and is
\* still writing is never listed.
C11_ListedFilesComplete ==
    [][(rpc = "list" /\ rpc' = "load")
          => \A i \in 1..Len(fresh_list') : ~ being_written(cache, fresh_list'[i])]_vars

\* run() has been left by an exception: no further cycle starts
sync_thread_ended == spc = "dead"

\* C12: no outcome of a sync cycle (listing failure, malformed listing payload,
\* continuation failure, per-file download or conversion failure) terminates
\* the sync loop; the thread always goes on to wait and start another cycle.
C12_SyncLoopNeverEnds == ~ sync_thread_ended

\* a cycle has ended in which a download or a conversion failed
CycleEndedWithFailure == spc = "sleep" /\ dlFailed # {}

\* C13: in a cycle whose listing succeeded, the failure of one entry's download
\* or conversion leaves every other entry attempted (its local file is there,
\* or its own failure is recorded), the deletion phase has run (no unexpected
\* supported-extension file is left), and the cycle reports success.
C13_FailureSkipsOneEntry ==
    CycleEndedWithFailure =>
        /\ synced_ok
        /\ \A e \in remote :
              LET n == local_name(backend, e.name)
              IN n \in dlFailed \/ exists(cache, n)
        /\ CachedSupported \subseteq expected_local(backend, remote)

C13_Witness ==
    /\ CycleEndedWithFailure
    /\ synced_ok
    /\ didFetch
    /\ didRemove
    /\ \E e \in remote : /\ local_name(backend, e.name) \notin dlFailed
                         /\ cache[local_name(backend, e.name)] = "ok"
                         /\ e \notin lastListing

\* an advance takes place while a slide is showing, and the image it selects
\* cannot be loaded
AdvanceLoadFails ==
    /\ rpc = "load"
    /\ rpc' # "load"
    /\ current_surf # NoSurf
    /\ due(age)
    /\ image_list' # <<>>
    /\ load_and_scale(cache, image_list'[index' + 1]) = NoSurf

\* C14: when the image selected by an advance fails to load, the slide shown
\* before stays on the screen (no placeholder), in every variant of the loop.
C14_FailedLoadKeepsSlide ==
    [][AdvanceLoadFails => current_surf' = current_surf]_vars

\* an advance takes place while a slide is showing, and the file it selects
\* from the listing is no longer in the directory
FileVanishedBeforeOpen ==
    /\ rpc = "load"
    /\ rpc' # "load"
    /\ current_surf # NoSurf
    /\ due(age)
    /\ image_list' # <<>>
    /\ ~ exists(cache, image_list'[index' + 1])

\* C15: when the sync thread has removed a file between the render loop's
\* listing and its open, the loop goes on to draw, still running, with the slide
\* it was showing.
C15_VanishedFileSkipped ==
    [][FileVanishedBeforeOpen =>
          /\ current_surf' = current_surf
          /\ running' = running
          /\ rpc' = "draw"]_vars

C15_Witness ==
    /\ rpc = "draw"
    /\ didRemove
    /\ image_list # <<>>
    /\ ~ exists(cache, image_list[index + 1])
    /\ current_surf # NoSurf
    /\ current_surf # image_list[index + 1]
    /\ age = 0

\* the cycle is in its download loop or its removal loop
Reconciling == spc \in {"download", "write", "convert", "save", "delete"}

\* C16: downloads and deletions are only performed against a complete listing;
\* when a page of the listing could not be obtained the cycle does not reach
\* its download and removal loops.
C16_ReconcileOnCompleteListing == Reconciling => ~ listFailed

\* a cycle has ended whose listing call succeeded, whatever it returned
CycleEndedListed == spc = "sleep" /\ ~ listFailed

\* C17: at the end of every cycle whose listing call succeeded, no
\* supported-extension file is left whose name is outside the expected-local
\* set of that listing; after a listing without image entries LocalCache holds
\* no supported-extension file.
C17_UnexpectedFilesDeleted ==
    CycleEndedListed => CachedSupported \subseteq expected_local(backend, entries)

\* the extensions a backend may list and download
listable_ext(b, name) ==
    lower(splitext(name)[2]) \in
        SUPPORTED_EXTS(b) \cup (IF b = "ApiKeyHeic" THEN HEIC_EXTS ELSE {})

\* C18: every entry a listing returns and every file the sync thread downloads
\* has an extension in SUPPORTED_EXTS or, with the ApiKeyHeic backend, .heic or
\* .heif; a file with another extension or with none is never listed and
\* never downloaded.
C18_OnlySupportedListed ==
    /\ \A e \in entries \cup remote : listable_ext(backend, e.name)
    /\ cur # NoEntry => listable_ext(backend, cur.name)

\* a tick is over in which one command, "next", was processed while a slide
\* was showing
TickWithNext ==
    /\ rpc = "top"
    /\ issued.cmd = "next"
    /\ issued.n = 1
    /\ issued.showing

\* C19: a "next" command processed while a slide is showing makes the same
\* tick advance to (i + 1) mod n, whatever the time since the last advance: at
\* the end of the tick the cursor is there, the slide timer has restarted, and
\* the picture at the cursor is on the screen when it could be loaded.
C19_NextAdvancesSameTick ==
    (TickWithNext /\ image_list # <<>>) =>
        /\ index = (issued.idx + 1) % Len(image_list)
        /\ age = 0
        /\ (issued.steady /\ cache[image_list[index + 1]] = "ok"
               => current_surf = image_list[index + 1])

C19_Witness ==
    /\ TickWithNext
    /\ Len(image_list) = 2
    /\ issued.idx = 1
    /\ index = 0
    /\ issued.steady
    /\ current_surf = image_list[1]

\* what the event loop works on
loop_state == [index |-> index, age |-> age, running |-> running,
               cmd |-> issued.cmd, n |-> issued.n]

key(k) == Ev("KEYDOWN", k, 0)

\* the releases at pixel column x: of the mouse, and of a finger (event.x is the
\* column as a fraction of the width)
taps(x) == {Ev("FINGERUP", "", x)} \cup (IF x < SW THEN {Ev("MOUSEBUTTONUP", "", x)} ELSE {})

\* C20: whenever the event loop runs, a release at x < W/3 issues "previous", at
\* x > 2W/3 issues "next", and
\* in between leaves cursor and slide timer as they are; K_LEFT and K_RIGHT
\* change the state exactly as a left-third and a right-third tap do.
C20_TapThirds ==
    rpc = "events" => \A x \in 0..SW : \A ev \in taps(x) :
        LET after == on_event(loop_state, ev)
        IN /\ 3 * x < SW =>
                 /\ after = on_event(loop_state, key("K_LEFT"))
                 /\ after.cmd = "prev"
                 /\ after.index = max(0, index - 2)
                 /\ after.age = SLIDE_DURATION
           /\ 3 * x > 2 * SW =>
                 /\ after = on_event(loop_state, key("K_RIGHT"))
                 /\ after.cmd = "next"
                 /\ after.index = index
                 /\ after.age = SLIDE_DURATION
           /\ (3 * x >= SW /\ 3 * x <= 2 * SW) => after = loop_state

C20_Witness ==
    /\ rpc = "events"
    /\ nev = 1
    /\ issued.by = "tap"
    /\ issued.cmd = "prev"
    /\ issued.idx = 1
    /\ index = 0
    /\ age = SLIDE_DURATION

\* a tick begins: the loop reads the clock, the weather and the events
TickBegins == rpc = "top" /\ rpc' = "events"

\* C21: once a quit or escape event has been processed no further tick begins,
\* and the loop, after finishing the tick it is in (a crossfade included),
\* terminates, wherever the sync and weather threads are.
C21_QuitEndsLoop ==
    /\ [][~ running => ~ TickBegins]_vars
    /\ (~ running ~> rpc = "exit")

C21_Witness ==
    /\ rpc = "exit"
    /\ ~ running
    /\ issued.showing
    /\ Len(frames) = CROSSFADE_STEPS
    /\ wpc = "fetching"

\* a step takes a supported-extension file out of the cache directory
SupportedFileRemoved ==
    \E n \in LocalNames : supported(backend, n) /\ exists(cache, n) /\ ~ exists(cache', n)

\* C22: within a cycle a supported-extension file is removed only by the removal
\* loop, and only when every download attempt of the cycle has finished; once
\* the removal loop has started, no download step follows in that cycle.
C22_DeleteAfterDownloads ==
    /\ [][SupportedFileRemoved =>
             /\ spc = "delete"
             /\ todo = {}
             /\ cur = NoEntry]_vars
    /\ [][spc = "delete" => spc' \in {"delete", "sleep"}]_vars

C22_Witness ==
    /\ spc = "delete"
    /\ didFetch
    /\ didRemove
    /\ dlFailed # {}

\* the tick has handled its events with a slide showing, and this step is the
\* loop's own: the advance test and what follows from it
AdvanceTest ==
    /\ current_surf # NoSurf
    /\ \/ rpc = "load" /\ rpc' # "load"
       \/ rpc = "events" /\ rpc' \notin {"events", "list"}

\* C23: with a slide showing, a tick whose elapsed time is below the slide
\* duration advances nothing; a tick without command whose elapsed time has
\* reached it advances the cursor by one over the listed files; the timer
\* restarts when the advance is complete, after the last crossfade frame if
\* there is a crossfade.
C23_AdvanceWhenDue ==
    /\ [][(AdvanceTest /\ age < SLIDE_DURATION) =>
             /\ rpc' = "draw"
             /\ UNCHANGED <<image_list, index, current_surf, age>>]_vars
    /\ [][(AdvanceTest /\ age >= SLIDE_DURATION /\ image_list' # <<>>) =>
             /\ rpc' \in {"draw", "fade"}
             /\ issued.n = 0 => index' = (issued.idx + 1) % Len(image_list')
             /\ rpc' = "draw" => age' = 0
             /\ rpc' = "fade" => age' = age /\ new_surf' = image_list'[index' + 1]]_vars
    /\ [][(rpc = "fade" /\ rpc' # "fade") =>
             /\ fade_i' = CROSSFADE_STEPS
             /\ age' = 0
             /\ current_surf' = new_surf]_vars

C23_Witness ==
    /\ rpc = "top"
    /\ issued.n = 0
    /\ issued.cmd = "none"
    /\ issued.showing
    /\ Len(image_list) = 2
    /\ issued.idx = 0
    /\ index = 1
    /\ age = 0
    /\ TRANSITION = "crossfade"
    /\ current_surf = image_list[2]

\* a tick is over in which one command, "previous", was processed while a slide
\* was showing
TickWithPrevious ==
    /\ rpc = "top"
    /\ issued.cmd = "prev"
    /\ issued.n = 1
    /\ issued.showing

\* C24: "previous" sets the cursor to max(0, i - 2) and forces the advance of
\* the same tick, so that with n listed files the tick ends with the cursor at
\* (max(0, i - 2) + 1) mod n and the slide timer restarted.
C24_PreviousIndex ==
    (TickWithPrevious /\ image_list # <<>>) =>
        /\ index = (max(0, issued.idx - 2) + 1) % Len(image_list)
        /\ age = 0

C24_Witness ==
    /\ TickWithPrevious
    /\ Len(image_list) = 2
    /\ issued.idx = 1
    /\ index = 1
    /\ issued.steady
    /\ current_surf = image_list[2]

\* C25: a HEIC/HEIF entry whose download and conversion succeeded leaves, at
\* the end of the cycle, <stem>.jpg in LocalCache and no file of its HEIC name;
\* the following cycle does not download an entry the cycle before converted.
C25_HeicConvertedOnce ==
    /\ [](CycleSucceeded =>
            \A e \in converted : /\ cache[jpg_path(e.name)] = "ok"
                                 /\ ~ exists(cache, e.name))
    /\ [][(spc = "download" /\ spc' = "write") => cur' \notin convertedBefore]_vars

C25_Witness ==
    /\ spc = "delete"
    /\ delTodo = {}
    /\ convertedBefore # {}
    /\ convertedBefore \subseteq remote
    /\ converted = {}
    /\ ~ listFailed

\* the download loop is through with entry e in this step
LoopLeaves(e) == e \in todo /\ e \notin todo'

\* C26: a listed HEIC/HEIF entry whose latest conversion failed, or could not
\* run, is downloaded and converted again by every following cycle: when the
\* download loop is through with it, it has been converted or its attempt of
\* this cycle has failed.
C26_FailedConversionRetried ==
    [][\A e \in unconverted :
          LoopLeaves(e) => \/ e \in converted'
                           \/ local_name(backend, e.name) \in dlFailed']_vars

\* C27: after a completed cycle every file the sync thread has put into the
\* cache directory has a supported extension and is the local file of an entry
\* of the cycle's listing; no raw HEIC/HEIF file and no other file without a
\* supported extension that it wrote remains.
C27_OnlySyncedImagesRemain ==
    CycleSucceeded =>
        \A n \in placed : /\ supported(backend, n)
                          /\ n \in expected_local(backend, remote)

\* the weather thread takes its lock in this step
WeatherLocks == lock = "free" /\ lock' = "weather"

\* C28: the lock of the weather snapshot is free whenever a fetch is in flight;
\* the weather thread takes it only in the step that follows the return of
\* fetch_weather, to assign the reference; and a render loop that is at
\* weather_thread.get() while a fetch is in flight can take its step.
C28_LockFreeDuringFetch ==
    /\ [](wpc = "fetching" => lock = "free")
    /\ [][WeatherLocks => wpc = "acquire" /\ wpc' = "store"]_vars
    /\ []((wpc = "fetching" /\ rpc = "top" /\ running) => ENABLED RBegin)

\* the second fetch is in flight and the render loop has just read the
\* snapshot that the first one stored
C28_Witness ==
    /\ wpc = "fetching"
    /\ fetches = 1
    /\ lock = "free"
    /\ rpc = "events"
    /\ weather = 1
    /\ data = 1

\* C29: in cut mode the crossfade loop is never entered and no blended frame
\* is presented; an advance whose new slide loads ends with that slide as the
\* current surface and goes straight to Draw, which presents it as it is.
C29_CutSwapsAtOnce ==
    /\ [](TRANSITION = "cut" => rpc # "fade" /\ frames = <<>> /\ fade_i = 0)
    /\ [][(/\ TRANSITION = "cut"
           /\ AdvanceTest
           /\ age >= SLIDE_DURATION
           /\ image_list' # <<>>
           /\ load_and_scale(cache, image_list'[index' + 1]) # NoSurf) =>
             /\ rpc' = "draw"
             /\ current_surf' = image_list'[index' + 1]
             /\ age' = 0
             /\ UNCHANGED fadeVars]_vars

\* Draw is about to present the second picture, which a cut advance has just
\* made the current surface in place of the first
C29_Witness ==
    /\ TRANSITION = "cut"
    /\ rpc = "draw"
    /\ issued.showing
    /\ issued.cmd = "none"
    /\ issued.idx = 0
    /\ index = 1
    /\ Len(image_list) = 2
    /\ current_surf = image_list[2]
    /\ age = 0
    /\ frames = <<>>

\* C30: whatever the cache directory holds, for a listing of .jpg/.png entries
\* with different names and for the same reply and write outcome of every
\* entry, a cycle of each of the three backends leaves the file names and
\* returns the value that the cycle just made has left and returned.
C30_BackendsAgree ==
    [][\A reply \in ReplyChoices, wr \in WriteChoices :
          LET mine == sync_folder(backend, cache, folder, reply, wr)
          IN (spc = "start" /\ cache' = mine.cache /\ synced_ok' = mine.ok) =>
                \A b \in Backends :
                   LET other == sync_folder(b, cache, folder, reply, wr)
                   IN /\ listdir(other.cache) = listdir(cache')
                      /\ other.ok = synced_ok']_vars

\* a file of the cache directory that pygame can decode
Decodable == \E n \in Pictures : cache[n] = "ok"

\* C31: with a cache directory that does not change and holds a decodable
\* picture, a running loop that shows the placeholder comes to show a slide,
\* whatever the other files of the directory are.
C31_PlaceholderIsLeft ==
    (Decodable /\ current_surf = NoSurf) ~> (current_surf # NoSurf \/ ~ running)

\* position of a name in the sorted() order
rank(n) == CHOOSE i \in 1..Len(NameOrder) : NameOrder[i] = n

\* the list is in ascending order of its file names
ascending(l) == \A i, j \in 1..Len(l) : i < j => rank(l[i]) < rank(l[j])

\* the file after f in the list, the first one after the last
following(l, f) ==
    LET i == CHOOSE k \in 1..Len(l) : l[k] = f
    IN l[(i % Len(l)) + 1]

\* the slide an advance step brings: the one being faded in, or the new
\* current surface
brought == IF rpc' = "fade" THEN new_surf' ELSE current_surf'

\* C32: in sequential mode, over an unchanged directory of n >= 1 decodable
\* pictures, every timer advance of a tick without command brings the file
\* that follows the displayed one in the ascending list of all n files, the
\* first after the last: n advances in a row bring each file once, in order.
C32_SequentialCycle ==
    [][(/\ AdvanceTest
        /\ age >= SLIDE_DURATION
        /\ issued.n = 0
        /\ load_image_list(backend, cache) # <<>>) =>
          /\ image_list' = load_image_list(backend, cache)
          /\ ascending(image_list')
          /\ \A n \in LocalNames :
                (exists(cache, n) /\ supported(backend, n)) =>
                    \E k \in 1..Len(image_list') : image_list'[k] = n
          /\ brought = following(image_list', current_surf)
          /\ brought = image_list'[index' + 1]]_vars

\* the third of three pictures has been displayed and a timer advance has
\* wrapped to the first
C32_Witness ==
    /\ rpc = "draw"
    /\ Len(image_list) = 3
    /\ issued.n = 0
    /\ issued.showing
    /\ issued.idx = 2
    /\ index = 0
    /\ current_surf = A_JPG
    /\ age = 0

\* the directory holds the local file of every entry of the listing and no
\* supported-extension file beside them
Settled(rem) ==
    /\ \A e \in rem : exists(cache, local_name(backend, e.name))
    /\ \A n \in listdir(cache) : supported(backend, n) => n \in expected_local(backend, rem)

\* C33: a cycle that returned True without a failed entry leaves the directory
\* settled for its listing; the directory stays so until the next listing; and
\* a cycle that gets the same listing over a settled directory fetches
\* nothing, removes nothing and changes no file, from its first step to its
\* return.
C33_SecondCycleIdle ==
    /\ []((CycleSucceeded /\ dlFailed = {}) => Settled(remote))
    /\ [][(/\ Settled(remote)
           /\ \/ spc = "sleep"
              \/ spc = "start" /\ spc' = "download" /\ remote' = remote) =>
             /\ cache' = cache
             /\ remote' = remote
             /\ didFetch' = FALSE
             /\ didRemove' = FALSE]_vars
    /\ [][(spc \in {"download", "delete"} /\ Settled(remote)) =>
             /\ cache' = cache
             /\ remote' = remote
             /\ didFetch' = didFetch
             /\ didRemove' = didRemove
             /\ spc' \in {"download", "delete", "sleep"}
             /\ spc' = "sleep" => synced_ok']_vars

\* the second of two cycles over the same listing has returned: nothing was
\* fetched or removed, and the files of the first cycle are there
C33_Witness ==
    /\ spc = "sleep"
    /\ synced_ok
    /\ remote # {}
    /\ lastListing = remote
    /\ ~ didFetch
    /\ ~ didRemove
    /\ dlFailed = {}
    /\ placed # {}

\* the sync function is between its listing and its return
InCycle == spc \in {"download", "write", "convert", "save", "delete"}

\* a file that is in the directory and that no writer has open
AtRest(n) == cache[n] \in {"ok", "bad"}

\* C34: the listing step changes no file; an entry is fetched only when its
\* local file does not exist; and no step of a cycle changes or removes a file
\* at rest whose name is in the expected-local set of the cycle's listing,
\* whether it was there when the cycle started or was completed during it.
C34_ExpectedFilesUntouched ==
    /\ [][spc = "start" => cache' = cache]_vars
    /\ [][(spc = "download" /\ spc' = "write") =>
             ~ exists(cache, local_name(backend, cur'.name))]_vars
    /\ [][InCycle =>
             \A n \in expected_local(backend, remote) :
                 AtRest(n) => cache'[n] = cache[n]]_vars

\* a cycle that fetched and removed files has returned, and b.PNG, which was in
\* the directory before the sync thread wrote anything and is expected, is there
C34_Witness ==
    /\ spc = "sleep"
    /\ synced_ok
    /\ didFetch
    /\ didRemove
    /\ B_PNG \in expected_local(backend, remote)
    /\ B_PNG \notin placed
    /\ cache[B_PNG] = "ok"

\* n is the local name of no HEIC entry of the listing, so n is in dlFailed
\* only when the download of the entry named n has failed
PlainName(n) == \A e \in remote : is_heic(backend, e.name) => local_name(backend, e.name) # n

\* C35: when a cycle is over, no file exists under the local name of an entry
\* whose download failed in it.
C35_FailedDownloadLeavesNoFile ==
    spc = "sleep" =>
        \A n \in dlFailed : PlainName(n) => ~ exists(cache, n)

\* a tick is over: flip() and clock.tick(30) are done
TickOver == rpc \in {"top", "exit"}

\* C36: when a tick is over with a slide on the screen, the cursor is a
\* position of the playlist and the slide is the file at that position.
C36_SlideAtCursor ==
    (TickOver /\ current_surf # NoSurf) =>
        /\ index < Len(image_list)
        /\ current_surf = image_list[index + 1]

\* the cycle has returned True, its listing was complete and no download or
\* conversion failed in it
CycleAllSucceeded == CycleSucceeded /\ ~ listFailed /\ dlFailed = {}

\* whatever failed in earlier cycles, the directory after a cycle without
\* failure holds the supported-extension names of expected_local and no other
\* supported-extension name
RecoveredAfterGoodCycle ==
    CycleAllSucceeded =>
        CachedSupported = { n \in expected_local(backend, remote) : supported(backend, n) }

\* C37: after any failures the sync thread is still there to run a further
\* cycle, and every cycle in which the listing, the downloads and the
\* conversions succeed, the first one after the failures and every later one,
\* ends with the supported-extension names of LocalCache equal to those of the
\* expected-local set.
C37_RecoversFromFailures ==
    /\ [](~ sync_thread_ended)
    /\ []RecoveredAfterGoodCycle

\* the advance of a variant with a sync thread finds the directory without
\* pictures while a slide is showing
AdvanceOverEmpty ==
    /\ SyncVariant
    /\ rpc = "load"
    /\ rpc' # "load"
    /\ current_surf # NoSurf
    /\ age >= SLIDE_DURATION
    /\ fresh_list = <<>>

\* C38: an advance that finds the directory empty while a slide is showing
\* keeps the slide and the cursor, restarts the timer and goes on to draw the
\* slide, not the placeholder.
C38_EmptyCacheKeepsSlide ==
    [][AdvanceOverEmpty =>
          /\ current_surf' = current_surf
          /\ index' = index
          /\ age' = 0
          /\ rpc' = "draw"
          /\ UNCHANGED fadeVars]_vars

\* the slide is about to be drawn again after an advance over an empty
\* directory
C38_Witness ==
    /\ SyncVariant
    /\ rpc = "draw"
    /\ issued.showing
    /\ image_list = <<>>
    /\ listdir(cache) = {}
    /\ current_surf # NoSurf
    /\ age = 0

\* a file name with a HEIC extension
RawHeic(n) == lower(splitext(n)[2]) \in HEIC_EXTS

\* every member of the list has an extension of SUPPORTED_EXTS
OnlySupported(l) == \A i \in 1..Len(l) : supported(backend, l[i])

\* C39: the playlist and the listing it is taken from hold only names with a
\* supported extension, so never a raw HEIC file; and the removal loop of the
\* sync thread changes no raw HEIC file of the directory.
C39_RawHeicLeftAlone ==
    /\ [](OnlySupported(image_list) /\ OnlySupported(fresh_list))
    /\ [](\A n \in LocalNames : RawHeic(n) => ~ supported(backend, n))
    /\ [][spc = "delete" =>
             \A n \in LocalNames : RawHeic(n) => cache'[n] = cache[n]]_vars

\* a cycle is over whose conversion failed: the raw a.heic is in the
\* directory, past the removal loop, and the playlist holds a.jpg alone
C39_Witness ==
    /\ spc = "sleep"
    /\ synced_ok
    /\ unconverted # {}
    /\ cache[A_HEIC] = "ok"
    /\ image_list = <<A_JPG>>

====
